---- MODULE Spec2Model ----
(***************************************************************************)
(* Company Fundamentals Microservice (app/main.py, app/fmp_client.py,      *)
(* app/schemas.py): one inbound request, the upstream calls it issues and  *)
(* the response it ends with.                                              *)
(*                                                                         *)
(* Values that may be None in Python (dict.get results, Optional schema    *)
(* fields) are sets of at most one element: {} is None, {v} is v.          *)
(* Strings that the code transforms (symbol, upstream body text) are       *)
(* sequences of one-character strings.                                     *)
(***************************************************************************)
EXTENDS Integers, Sequences, FiniteSets, TLC

VARIABLES
    pc,             \* position of the request: idle, the handler's next upstream call, done
    req,            \* the inbound request (endpoint and parameters)
    calls,          \* upstream calls issued so far, in order, each with the provider's reply
    name,           \* company_snapshot local: name
    currency,       \* company_snapshot local: currency
    exchange,       \* company_snapshot local: exchange
    income_list,    \* company_snapshot / company_history local
    balance_list,   \* company_snapshot local
    cashflow_list,  \* company_snapshot local
    raw,            \* search_companies local
    response        \* the HTTP response of the request

vars == <<pc, req, calls, name, currency, exchange, income_list, balance_list,
          cashflow_list, raw, response>>

(***************************************************************************)
(* Bounds of the model.                                                    *)
(***************************************************************************)
\* longest list of rows the provider returns
MaxRows == 2
\* how far the longest upstream error body exceeds the excerpt length
MaxBodyExtra == 3

(***************************************************************************)
(* Program constants.                                                      *)
(***************************************************************************)
BodyExcerptLen == 200
RequestTimeout == 10
LimitMin == 1
LimitMax == 50
YearsMin == 1
YearsMax == 20
SnapshotLimit == 1
ProfileNotFoundStatus == 404
HistoryNotFoundStatus == 404
RuntimeErrorStatus == 502

None == {}

SeqsUpTo(S, n) == UNION {[1..k -> S] : k \in 0..n}

(***************************************************************************)
(* Python helpers.                                                         *)
(***************************************************************************)
\* str.upper() on the characters the model uses
UpperChar(c) ==
    CASE c = "a" -> "A"
      [] c = "p" -> "P"
      [] c = "l" -> "L"
      [] OTHER -> c

Upper(s) == [i \in 1..Len(s) |-> UpperChar(s[i])]

\* text[:n]
Slice(text, n) == SubSeq(text, 1, IF Len(text) < n THEN Len(text) ELSE n)

\* `a or b` on Optional[str]: None and "" are falsy
OrStr_NoneOnly(a, b) == IF a # None THEN a ELSE b
OrStr(a, b) == IF a # None /\ a # {""} THEN a ELSE b

\* `a or b` on Optional[number]: None and 0 are falsy
OrNum(a, b) == IF a # None /\ a # {0} THEN a ELSE b

\* dict.get(key): None when the key is missing (or null)
Get(row, key) == row[key]

(***************************************************************************)
(* The provider: raw rows and replies.                                     *)
(***************************************************************************)
StatementFields ==
    {"date", "revenue", "revenueTTM", "netIncome", "netIncomeTTM",
     "totalAssets", "totalLiabilities", "operatingCashFlow", "operatingCashFlowTTM"}

\* the empty raw object {}
EmptyRow == [f \in StatementFields |-> None]
\* a raw object of zeros in place of {}
ZeroRow == [f \in StatementFields |-> IF f = "date" THEN None ELSE {0}]

IncomeRows ==
    {[EmptyRow EXCEPT !.date = d, !.revenue = r, !.revenueTTM = rt,
                      !.netIncome = n, !.netIncomeTTM = nt] :
        d \in {None, {""}, {"2023-12-31"}},
        r \in {None, {0}, {5}}, rt \in {None, {7}},
        n \in {None, {0}, {2}}, nt \in {None, {3}}}

BalanceRows ==
    {[EmptyRow EXCEPT !.date = d, !.totalAssets = a, !.totalLiabilities = l] :
        d \in {None, {""}, {"2023-12-30"}}, a \in {None, {9}}, l \in {None, {4}}}

CashFlowRows ==
    {[EmptyRow EXCEPT !.date = d, !.operatingCashFlow = o, !.operatingCashFlowTTM = ot] :
        d \in {None, {""}, {"2023-12-29"}}, o \in {None, {0}, {6}}, ot \in {None, {8}}}

\* rows of the income-statement endpoint as the history request sees them
HistoryRows ==
    {[EmptyRow EXCEPT !.date = d, !.revenue = r, !.revenueTTM = rt,
                      !.netIncome = n, !.netIncomeTTM = {3}] :
        d \in {None, {"2023-12-31"}, {"2022-12-31"}},
        r \in {None, {5}}, rt \in {None, {7}}, n \in {None, {2}}}

ProfileRows ==
    {[companyName |-> {"Apple Inc."}, name |-> None, currency |-> {"USD"},
      exchangeShortName |-> {"NASDAQ"}, exchange |-> {"Nasdaq Global Select"}],
     [companyName |-> None, name |-> {"Apple"}, currency |-> None,
      exchangeShortName |-> None, exchange |-> {"Nasdaq Global Select"}]}

SearchRows ==
    {[symbol |-> s, name |-> n, companyName |-> cn, stockExchange |-> ex,
      currency |-> {"USD"}] :
        s \in {None, {"AAPL"}}, n \in {None, {""}, {"Apple"}},
        cn \in {None, {""}, {"Apple Inc."}}, ex \in {None, {"NASDAQ"}}}

\* upstream error bodies: shorter than, exactly, and longer than the excerpt
BodyLens == {0, BodyExcerptLen - 1, BodyExcerptLen, BodyExcerptLen + 1,
             BodyExcerptLen + MaxBodyExtra}
BodyText(n) == [i \in 1..n |-> IF i <= BodyExcerptLen THEN "e" ELSE "x"]
Bodies == {BodyText(n) : n \in BodyLens}

ErrorStatuses == {404, 500}

\* the lists of `rows` the provider answers to a request for at most `limit` of them
Lists(rows, limit) == SeqsUpTo(rows, IF limit < MaxRows THEN limit ELSE MaxRows)

\* what the provider can do with one GET whose successful answers are `lists`
Replies(lists) ==
    {[kind |-> "timeout", status_code |-> 0, text |-> <<>>, json |-> <<>>]}
    \cup {[kind |-> "http", status_code |-> s, text |-> t, json |-> <<>>] :
            s \in ErrorStatuses, t \in Bodies}
    \cup {[kind |-> "http", status_code |-> 200, text |-> <<>>, json |-> l] :
            l \in lists}

(***************************************************************************)
(* FMPClient                                                               *)
(***************************************************************************)
\* requests.Response.ok: raise_for_status() raises for 400 <= status < 600
Ok(reply) == ~(400 <= reply.status_code /\ reply.status_code < 600)

NoError == [raised |-> "none", status_code |-> 0, text |-> <<>>]

\* FMPClient._get swallowing a non-success status as an empty result
FMPGet_SwallowStatus(reply) ==
    IF reply.kind = "timeout"
    THEN [error |-> [raised |-> "Timeout", status_code |-> 0, text |-> <<>>],
          value |-> <<>>]
    ELSE [error |-> NoError, value |-> reply.json]

\* FMPClient._get with the whole body in the message
FMPGet_WholeBody(reply) ==
    IF reply.kind = "timeout"
    THEN [error |-> [raised |-> "Timeout", status_code |-> 0, text |-> <<>>],
          value |-> <<>>]
    ELSE IF ~Ok(reply)
    THEN [error |-> [raised |-> "RuntimeError", status_code |-> reply.status_code,
                     text |-> reply.text],
          value |-> <<>>]
    ELSE [error |-> NoError, value |-> reply.json]

\* FMPClient._get: requests.get(..., timeout=10) raises requests.exceptions.Timeout
\* (an OSError); a status that is not ok raises RuntimeError with the status code
\* and text[:200]; otherwise the parsed JSON body is returned
FMPGet(reply) ==
    IF reply.kind = "timeout"
    THEN [error |-> [raised |-> "Timeout", status_code |-> 0, text |-> <<>>],
          value |-> <<>>]
    ELSE IF ~Ok(reply)
    THEN [error |-> [raised |-> "RuntimeError", status_code |-> reply.status_code,
                     text |-> Slice(reply.text, BodyExcerptLen)],
          value |-> <<>>]
    ELSE [error |-> NoError, value |-> reply.json]

\* the record of one issued call
Call(endpoint, symbol, limit, reply) ==
    [endpoint |-> endpoint, symbol |-> symbol, limit |-> limit,
     timeout |-> RequestTimeout, reply |-> reply]

(***************************************************************************)
(* Responses                                                               *)
(***************************************************************************)
NoResponse == [status |-> 0, detail |-> "", body |-> <<>>]

\* an exception leaving a handler: runtime_error_handler turns RuntimeError into
\* 502 with detail str(exc); any other exception has no handler and the framework
\* answers 500 Internal Server Error
RuntimeErrorHandler(error) ==
    IF error.raised = "RuntimeError"
    THEN [status |-> RuntimeErrorStatus,
          detail |-> [message |-> "FMP API error", status_code |-> error.status_code,
                      text |-> error.text],
          body |-> <<>>]
    ELSE [status |-> 500, detail |-> "Internal Server Error", body |-> <<>>]

\* raise HTTPException(status_code, detail)
HTTPException(status, detail) == [status |-> status, detail |-> detail, body |-> <<>>]

\* the framework's answer to a request parameter that fails its Query constraint
RequestValidationError == [status |-> 422, detail |-> "validation", body |-> <<>>]

\* pydantic.ValidationError raised inside a handler: no handler, 500
ModelValidationError == [raised |-> "ValidationError", status_code |-> 0, text |-> <<>>]
IndexError == [raised |-> "IndexError", status_code |-> 0, text |-> <<>>]

Success(body) == [status |-> 200, detail |-> "", body |-> body]

(***************************************************************************)
(* Requests                                                                *)
(***************************************************************************)
Symbols == {<<"a", "a", "p", "l">>, <<"A", "a", "P", "L">>}
Queries == {<<>>, <<"a">>}
Limits == {LimitMin - 1, LimitMin, LimitMax, LimitMax + 1}
Years == {YearsMin - 1, YearsMin, YearsMax, YearsMax + 1}

NoRequest == [endpoint |-> "none", q |-> <<>>, symbol |-> <<>>, limit |-> 0, years |-> 0]

\* `not x` on a list; IsEmpty_Never is the check left out
IsEmpty_Never(list) == FALSE
IsEmpty(list) == list = <<>>

\* `x[0] if x else {}`
FirstOrEmpty_Zeros(list) == IF list # <<>> THEN list[1] ELSE ZeroRow
FirstOrEmpty(list) == IF list # <<>> THEN list[1] ELSE EmptyRow

Init ==
    /\ pc = "idle"
    /\ req = NoRequest
    /\ calls = <<>>
    /\ name = None
    /\ currency = None
    /\ exchange = None
    /\ income_list = <<>>
    /\ balance_list = <<>>
    /\ cashflow_list = <<>>
    /\ raw = <<>>
    /\ response = NoResponse

locals == <<name, currency, exchange, income_list, balance_list, cashflow_list, raw>>

\* GET /health
HealthCheck ==
    /\ pc = "idle"
    /\ req' = [NoRequest EXCEPT !.endpoint = "health"]
    /\ response' = Success([status |-> "ok"])
    /\ pc' = "done"
    /\ UNCHANGED <<calls, locals>>

(***************************************************************************)
(* GET /companies/search                                                   *)
(***************************************************************************)
\* q: Query(..., min_length=1), limit: Query(10, ge=1, le=50)
SearchParamsValid(q, limit) == Len(q) >= 1 /\ limit >= LimitMin /\ limit <= LimitMax

ReceiveSearch ==
    /\ pc = "idle"
    /\ \E q \in Queries, limit \in Limits :
        /\ req' = [NoRequest EXCEPT !.endpoint = "search", !.q = q, !.limit = limit]
        /\ IF SearchParamsValid(q, limit)
           THEN pc' = "search" /\ response' = response
           ELSE pc' = "done" /\ response' = RequestValidationError
    /\ UNCHANGED <<calls, locals>>

\* CompanySearchItem with the two name fields in the profile's order
CompanySearchItem_CompanyNameFirst(item) ==
    [symbol |-> Get(item, "symbol"),
     name |-> OrStr(Get(item, "companyName"), Get(item, "name")),
     exchange |-> Get(item, "stockExchange"),
     currency |-> Get(item, "currency")]

\* CompanySearchItem(symbol=..., name=..., exchange=..., currency=...)
CompanySearchItem(item) ==
    [symbol |-> Get(item, "symbol"),
     name |-> OrStr(Get(item, "name"), Get(item, "companyName")),
     exchange |-> Get(item, "stockExchange"),
     currency |-> Get(item, "currency")]

\* schemas.CompanySearchItem: symbol: str and name: str are required
CompanySearchItemValid(m) == m.symbol # None /\ m.name # None

\* the body of search_companies after the upstream call returned `list`
SearchResponse(list) ==
    LET results == [i \in 1..Len(list) |-> CompanySearchItem(list[i])]
    IN  IF \E i \in 1..Len(list) : ~CompanySearchItemValid(results[i])
        THEN RuntimeErrorHandler(ModelValidationError)
        ELSE Success([results |-> results])

SearchCompanies ==
    /\ pc = "search"
    /\ \E reply \in Replies(Lists(SearchRows, req.limit)) :
        LET r == FMPGet(reply)
        IN  /\ calls' = Append(calls, Call("search-symbol", req.q, {req.limit}, reply))
            /\ IF r.error.raised # "none"
               THEN raw' = raw /\ response' = RuntimeErrorHandler(r.error)
               ELSE raw' = r.value /\ response' = SearchResponse(r.value)
    /\ pc' = "done"
    /\ UNCHANGED <<req, name, currency, exchange, income_list, balance_list, cashflow_list>>

(***************************************************************************)
(* GET /companies/{symbol}/snapshot                                        *)
(***************************************************************************)
ReceiveSnapshot ==
    /\ pc = "idle"
    /\ \E symbol \in Symbols :
        req' = [NoRequest EXCEPT !.endpoint = "snapshot", !.symbol = symbol]
    /\ pc' = "profile"
    /\ UNCHANGED <<calls, locals, response>>

\* client.get_company_profile(symbol), the emptiness check and the profile fields
SnapshotProfile ==
    /\ pc = "profile"
    /\ \E reply \in Replies(Lists(ProfileRows, 1)) :
        LET r == FMPGet(reply)
        IN  /\ calls' = Append(calls, Call("profile", Upper(req.symbol), None, reply))
            /\ IF r.error.raised # "none"
               THEN /\ pc' = "done"
                    /\ response' = RuntimeErrorHandler(r.error)
                    /\ UNCHANGED <<name, currency, exchange>>
               ELSE IF IsEmpty(r.value)
               THEN /\ pc' = "done"
                    /\ response' = HTTPException(ProfileNotFoundStatus,
                                                 "Company profile not found")
                    /\ UNCHANGED <<name, currency, exchange>>
               ELSE IF Len(r.value) = 0
               THEN \* profiles[0] on an empty list
                    /\ pc' = "done"
                    /\ response' = RuntimeErrorHandler(IndexError)
                    /\ UNCHANGED <<name, currency, exchange>>
               ELSE LET profile == r.value[1]
                    IN  /\ name' = OrStr(Get(profile, "companyName"), Get(profile, "name"))
                        /\ currency' = Get(profile, "currency")
                        /\ exchange' = OrStr(Get(profile, "exchangeShortName"),
                                             Get(profile, "exchange"))
                        /\ pc' = "income"
                        /\ response' = response
    /\ UNCHANGED <<req, income_list, balance_list, cashflow_list, raw>>

\* client.get_income_statement(symbol, period="annual", limit=1)
SnapshotIncome ==
    /\ pc = "income"
    /\ \E reply \in Replies(Lists(IncomeRows, SnapshotLimit)) :
        LET r == FMPGet(reply)
        IN  /\ calls' = Append(calls, Call("income-statement", Upper(req.symbol),
                                           {SnapshotLimit}, reply))
            /\ IF r.error.raised # "none"
               THEN /\ pc' = "done"
                    /\ response' = RuntimeErrorHandler(r.error)
                    /\ income_list' = income_list
               ELSE /\ pc' = "balance"
                    /\ response' = response
                    /\ income_list' = r.value
    /\ UNCHANGED <<req, name, currency, exchange, balance_list, cashflow_list, raw>>

\* client.get_balance_sheet(symbol, period="annual", limit=1)
SnapshotBalance ==
    /\ pc = "balance"
    /\ \E reply \in Replies(Lists(BalanceRows, SnapshotLimit)) :
        LET r == FMPGet(reply)
        IN  /\ calls' = Append(calls, Call("balance-sheet-statement", Upper(req.symbol),
                                           {SnapshotLimit}, reply))
            /\ IF r.error.raised # "none"
               THEN /\ pc' = "done"
                    /\ response' = RuntimeErrorHandler(r.error)
                    /\ balance_list' = balance_list
               ELSE /\ pc' = "cashflow"
                    /\ response' = response
                    /\ balance_list' = r.value
    /\ UNCHANGED <<req, name, currency, exchange, income_list, cashflow_list, raw>>

\* the mapping of company_snapshot from its locals to the CompanySnapshot
Snapshot(symbol, nm, cur, exch, il, bl, cl) ==
    LET income_raw == FirstOrEmpty(il)
        balance_raw == FirstOrEmpty(bl)
        cashflow_raw == FirstOrEmpty(cl)
    IN  [symbol |-> Upper(symbol),
         name |-> nm,
         currency |-> cur,
         exchange |-> exch,
         asOf |-> OrStr(OrStr(Get(income_raw, "date"), Get(balance_raw, "date")),
                        Get(cashflow_raw, "date")),
         income |-> [revenue |-> OrNum(Get(income_raw, "revenue"),
                                       Get(income_raw, "revenueTTM")),
                     netIncome |-> OrNum(Get(income_raw, "netIncome"),
                                         Get(income_raw, "netIncomeTTM"))],
         balanceSheet |-> [totalAssets |-> Get(balance_raw, "totalAssets"),
                           totalLiabilities |-> Get(balance_raw, "totalLiabilities")],
         cashFlow |-> [operatingCashFlow |->
                           OrNum(Get(cashflow_raw, "operatingCashFlow"),
                                 Get(cashflow_raw, "operatingCashFlowTTM"))]]

\* client.get_cash_flow(symbol, period="annual", limit=1) and the rest of the handler
SnapshotCashFlow ==
    /\ pc = "cashflow"
    /\ \E reply \in Replies(Lists(CashFlowRows, SnapshotLimit)) :
        LET r == FMPGet(reply)
        IN  /\ calls' = Append(calls, Call("cash-flow-statement", Upper(req.symbol),
                                           {SnapshotLimit}, reply))
            /\ IF r.error.raised # "none"
               THEN /\ response' = RuntimeErrorHandler(r.error)
                    /\ cashflow_list' = cashflow_list
               ELSE /\ cashflow_list' = r.value
                    /\ response' = Success(Snapshot(req.symbol, name, currency, exchange,
                                                    income_list, balance_list, r.value))
    /\ pc' = "done"
    /\ UNCHANGED <<req, name, currency, exchange, income_list, balance_list, raw>>

(***************************************************************************)
(* GET /companies/{symbol}/history                                         *)
(***************************************************************************)
\* years: Query(5, ge=1, le=20)
HistoryParamsValid(years) == years >= YearsMin /\ years <= YearsMax

ReceiveHistory ==
    /\ pc = "idle"
    /\ \E symbol \in Symbols, years \in Years :
        /\ req' = [NoRequest EXCEPT !.endpoint = "history", !.symbol = symbol,
                                    !.years = years]
        /\ IF HistoryParamsValid(years)
           THEN pc' = "history" /\ response' = response
           ELSE pc' = "done" /\ response' = RequestValidationError
    /\ UNCHANGED <<calls, locals>>

\* HistoryPoint(date=..., revenue=..., netIncome=...)
HistoryPoint(row) ==
    [date |-> Get(row, "date"),
     revenue |-> Get(row, "revenue"),
     netIncome |-> Get(row, "netIncome")]

\* schemas.HistoryPoint: date: str is required
HistoryPointValid(p) == p.date # None

\* the body of company_history after the upstream call returned `list`
HistoryResponse(symbol, list) ==
    IF IsEmpty(list)
    THEN HTTPException(HistoryNotFoundStatus, "No income statement data found")
    ELSE LET points == [i \in 1..Len(list) |-> HistoryPoint(list[i])]
         IN  IF \E i \in 1..Len(list) : ~HistoryPointValid(points[i])
             THEN RuntimeErrorHandler(ModelValidationError)
             ELSE Success([symbol |-> Upper(symbol), points |-> points])

CompanyHistory ==
    /\ pc = "history"
    /\ \E reply \in Replies(Lists(HistoryRows, req.years)) :
        LET r == FMPGet(reply)
        IN  /\ calls' = Append(calls, Call("income-statement", Upper(req.symbol),
                                           {req.years}, reply))
            /\ IF r.error.raised # "none"
               THEN income_list' = income_list /\ response' = RuntimeErrorHandler(r.error)
               ELSE income_list' = r.value /\ response' = HistoryResponse(req.symbol, r.value)
    /\ pc' = "done"
    /\ UNCHANGED <<req, name, currency, exchange, balance_list, cashflow_list, raw>>

Next ==
    \/ HealthCheck
    \/ ReceiveSearch
    \/ SearchCompanies
    \/ ReceiveSnapshot
    \/ SnapshotProfile
    \/ SnapshotIncome
    \/ SnapshotBalance
    \/ SnapshotCashFlow
    \/ ReceiveHistory
    \/ CompanyHistory

Spec == Init /\ [][Next]_vars

(***************************************************************************)
(* Properties                                                              *)
(***************************************************************************)
Done == pc = "done"

\* the provider answered with a status in the success range
Succeeded(reply) ==
    reply.kind = "http" /\ reply.status_code >= 200 /\ reply.status_code <= 299

\* the provider answered with a status outside the success range
NonSuccess(reply) == reply.kind = "http" /\ ~Succeeded(reply)

TimedOut(reply) == reply.kind = "timeout"

\* the provider answered the k-th call of the request with the empty list
ReturnedEmpty(k) ==
    Len(calls) >= k /\ Succeeded(calls[k].reply) /\ calls[k].reply.json = <<>>

\* the provider answered the k-th call of the request with a non-empty list
ReturnedRows(k) ==
    Len(calls) >= k /\ Succeeded(calls[k].reply) /\ calls[k].reply.json # <<>>

\* field `key` of the first row the k-th call returned; absent when it returned none
FirstRowField(k, key) ==
    IF calls[k].reply.json = <<>> THEN None ELSE calls[k].reply.json[1][key]

SnapshotOrder ==
    <<"profile", "income-statement", "balance-sheet-statement", "cash-flow-statement">>

SnapshotSucceeded == req.endpoint = "snapshot" /\ Done /\ response.status = 200

IsPrefix(s, t) == Len(s) <= Len(t) /\ \A i \in 1..Len(s) : s[i] = t[i]

\* C1: in a snapshot request whose profile call returns an empty list, the request
\* ends with 404 and the profile call is the only upstream call ever issued.
C1_EmptyProfileIs404 ==
    (req.endpoint = "snapshot" /\ ReturnedEmpty(1))
        => /\ Done
           /\ response.status = 404
           /\ Len(calls) = 1
           /\ calls[1].endpoint = "profile"

C1_Witness == req.endpoint = "snapshot" /\ ReturnedEmpty(1) /\ Done

C3_TimeoutIs502 ==
    \A k \in 1..Len(calls) :
        TimedOut(calls[k].reply) => Done /\ response.status = 502

\* C4: every request ends as a 200, a validation error (422), a not-found (404)
\* or an upstream error (502); no other status is reachable.
C4_OnlyClassifiedOutcomes ==
    Done => response.status \in {200, 422, 404, 502}

\* C5: a snapshot request whose four calls all succeed with a non-empty profile
\* ends with 200; a statement call that returned the empty list leaves every
\* field of its section absent, and asOf is absent when all three did.
C5_EmptyStatementsAreAbsent ==
    (/\ req.endpoint = "snapshot"
     /\ Done
     /\ Len(calls) = 4
     /\ ReturnedRows(1)
     /\ \A k \in 2..4 : Succeeded(calls[k].reply))
        => /\ response.status = 200
           /\ ReturnedEmpty(2) =>
                 response.body.income = [revenue |-> None, netIncome |-> None]
           /\ ReturnedEmpty(3) =>
                 response.body.balanceSheet =
                     [totalAssets |-> None, totalLiabilities |-> None]
           /\ ReturnedEmpty(4) =>
                 response.body.cashFlow = [operatingCashFlow |-> None]
           /\ (ReturnedEmpty(2) /\ ReturnedEmpty(3) /\ ReturnedEmpty(4)) =>
                 response.body.asOf = None

C5_Witness ==
    /\ SnapshotSucceeded
    /\ ReturnedRows(1)
    /\ ReturnedEmpty(2) /\ ReturnedEmpty(3) /\ ReturnedEmpty(4)

\* C6: in a successful snapshot asOf is the income date when that is non-empty,
\* otherwise the balance sheet date when that is non-empty, otherwise the cash
\* flow date, which may be absent.
C6_AsOfPriority ==
    SnapshotSucceeded =>
        LET i == FirstRowField(2, "date")
            b == FirstRowField(3, "date")
            c == FirstRowField(4, "date")
        IN  response.body.asOf =
                IF i # None /\ i # {""} THEN i
                ELSE IF b # None /\ b # {""} THEN b
                ELSE c

C6_Witness ==
    /\ SnapshotSucceeded
    /\ FirstRowField(2, "date") = {""}
    /\ FirstRowField(3, "date") = {"2023-12-30"}
    /\ FirstRowField(4, "date") = {"2023-12-29"}
    /\ response.body.asOf = {"2023-12-30"}

\* C7: in a successful snapshot revenue, netIncome and operatingCashFlow are the
\* row's own field whenever it is present, whatever its value, and the TTM field
\* only when the own field is absent.
C7_TTMOnlyWhenAbsent ==
    SnapshotSucceeded =>
        LET own(k, key) == FirstRowField(k, key)
            pick(k, key, ttm) ==
                IF own(k, key) # None THEN own(k, key) ELSE FirstRowField(k, ttm)
        IN  /\ response.body.income.revenue = pick(2, "revenue", "revenueTTM")
            /\ response.body.income.netIncome = pick(2, "netIncome", "netIncomeTTM")
            /\ response.body.cashFlow.operatingCashFlow =
                   pick(4, "operatingCashFlow", "operatingCashFlowTTM")

\* C8: a history request whose income-statement call returns n > 0 rows ends
\* with n points in the rows' order, each the row's own date, revenue and
\* netIncome.
C8_HistoryPassThrough ==
    (req.endpoint = "history" /\ Done /\ ReturnedRows(1))
        => LET rows == calls[1].reply.json
           IN  /\ response.status = 200
               /\ Len(response.body.points) = Len(rows)
               /\ \A i \in 1..Len(rows) :
                    /\ response.body.points[i].date = rows[i].date
                    /\ response.body.points[i].revenue = rows[i].revenue
                    /\ response.body.points[i].netIncome = rows[i].netIncome

\* C9: a successful search holds one result per upstream record in upstream
\* order: symbol, name (or companyName when name is absent or empty),
\* stockExchange as exchange, and currency.
C9_SearchMapping ==
    (req.endpoint = "search" /\ Done /\ response.status = 200)
        => LET rows == calls[1].reply.json
               results == response.body.results
           IN  /\ Len(results) = Len(rows)
               /\ \A i \in 1..Len(rows) :
                    /\ results[i].symbol = rows[i].symbol
                    /\ results[i].name =
                         IF rows[i].name # None /\ rows[i].name # {""}
                         THEN rows[i].name ELSE rows[i].companyName
                    /\ results[i].exchange = rows[i].stockExchange
                    /\ results[i].currency = rows[i].currency

C9_Witness ==
    /\ req.endpoint = "search" /\ Done /\ response.status = 200
    /\ Len(response.body.results) = 2
    /\ calls[1].reply.json[1] # calls[1].reply.json[2]
    /\ calls[1].reply.json[1].name = {""}
    /\ response.body.results[1].name = {"Apple Inc."}
    /\ calls[1].reply.json[2].name = None

\* C10: a snapshot request issues profile, income statement, balance sheet and
\* cash flow in that order, each at most once; a call that fails (status outside
\* the success range, or timeout) is the last call of the request, which ends
\* without a snapshot.
C10_OrderedNoRetryFailFast ==
    req.endpoint = "snapshot"
        => /\ IsPrefix([k \in 1..Len(calls) |-> calls[k].endpoint], SnapshotOrder)
           /\ \A k \in 1..Len(calls) :
                ~Succeeded(calls[k].reply)
                    => /\ k = Len(calls)
                       /\ Done
                       /\ response.status # 200
                       /\ response.body = <<>>
           /\ (Done /\ response.status = 200) => Len(calls) = 4

C10_Witness ==
    /\ req.endpoint = "snapshot"
    /\ Done
    /\ Len(calls) = 3
    /\ TimedOut(calls[3].reply)

====
